---------------------------- MODULE Spec2Model ----------------------------
(***************************************************************************)
(* A model of bundleresolver (cmd/bundleresolver/main.go): the field list  *)
(* parser, the platform detector, the iOS and Android resolvers, the       *)
(* sanitizer, the row printer and the line loop of process.                *)
(*                                                                         *)
(* A Go string is modelled as a sequence of characters, each character a   *)
(* one-character TLA+ string; the characters that have no printable form   *)
(* are named (TAB, LF, CR, BEL, LRE).  A Go error is a record [ok, msg]:   *)
(* ok = TRUE is the nil error, msg is the text of err.Error().             *)
(***************************************************************************)
EXTENDS Integers, Sequences, FiniteSets, TLC

VARIABLES
    pc,          \* position of the running function
    fields,      \* process: the fields argument
    header,      \* process: the header argument
    skipErrors,  \* process: the skipErrors argument
    csv,         \* the output mode the caller asked for (README --csv, the
                 \* sixth argument of process in main_test.go)
    nread,       \* process: number of lines the scanner has returned
    line,        \* process: the trimmed line being resolved
    firstErr,    \* fetchIOS / fetchAndroid: err of the first request
    correctPkg,  \* fetchAndroid: the package name the search returned
    reqs,        \* the GET requests issued for the current line, in order
    out,         \* the writes made to w (stdout), in order
    errs,        \* the writes made to os.Stderr, in order
    input,       \* the lines of the input stream r
    log,         \* per line read: what resolve returned and what was written
    retErr,      \* the error process returned
    fnIn,        \* argument of the pure function under check
    fnOut        \* its result

vars ==
    <<pc, fields, header, skipErrors, csv, nread, line, firstErr, correctPkg,
      reqs, out, errs, input, log, retErr, fnIn, fnOut>>

(***************************************************************************)
(* Bounds of the model.                                                    *)
(***************************************************************************)
\* number of input lines process reads
MaxLines == 2
\* length of the strings given to sanitize
MaxSanLen == 3
\* length of the tokens given to the platform detector
MaxTokLen == 4
\* number of comma-separated items given to parseFields
MaxItems == 3

(***************************************************************************)
(* Characters.                                                             *)
(***************************************************************************)
TAB == "\t"
LF == "\n"
CR == "\r"
SP == " "
\* U+0007, an ASCII control character
BEL == "U+0007"
\* U+202A, a Unicode format control character (category Cf)
LRE == "U+202A"
\* U+00E9, a letter outside ASCII
EACUTE == "U+00E9"

Digits == {"0", "1", "2", "3", "4", "5", "6", "7", "8", "9"}
LowerLetters ==
    {"a", "b", "c", "d", "e", "f", "g", "h", "i", "j", "k", "l", "m",
     "n", "o", "p", "q", "r", "s", "t", "u", "v", "w", "x", "y", "z"}
UpperLetters ==
    {"A", "B", "C", "D", "E", "F", "G", "H", "I", "J", "K", "L", "M",
     "N", "O", "P", "Q", "R", "S", "T", "U", "V", "W", "X", "Y", "Z"}
UpperSeq ==
    <<"A", "B", "C", "D", "E", "F", "G", "H", "I", "J", "K", "L", "M",
      "N", "O", "P", "Q", "R", "S", "T", "U", "V", "W", "X", "Y", "Z">>
LowerSeq ==
    <<"a", "b", "c", "d", "e", "f", "g", "h", "i", "j", "k", "l", "m",
      "n", "o", "p", "q", "r", "s", "t", "u", "v", "w", "x", "y", "z">>

(***************************************************************************)
(* String constants of the program.                                        *)
(***************************************************************************)
\* 'name'
FieldName ==
    <<"n", "a", "m", "e">>

\* 'publisher'
FieldPublisher ==
    <<"p", "u", "b", "l", "i", "s", "h", "e", "r">>

\* 'url'
FieldURL ==
    <<"u", "r", "l">>

\* 'https://itunes.apple.com/lookup?id='
LookupURLPrefix ==
    <<"h", "t", "t", "p", "s", ":", "/", "/", "i", "t", "u", "n", "e", "s", ".", "a", "p",
    "p", "l", "e", ".", "c", "o", "m", "/", "l", "o", "o", "k", "u", "p", "?", "i", "d",
    "=">>

\* '&country='
CountryParam ==
    <<"&", "c", "o", "u", "n", "t", "r", "y", "=">>

\* 'https://apps.apple.com/app/id'
AppStoreURLPrefix ==
    <<"h", "t", "t", "p", "s", ":", "/", "/", "a", "p", "p", "s", ".", "a", "p", "p", "l",
    "e", ".", "c", "o", "m", "/", "a", "p", "p", "/", "i", "d">>

\* 'https://play.google.com/store/apps/details?id='
PlayStoreURLPrefix ==
    <<"h", "t", "t", "p", "s", ":", "/", "/", "p", "l", "a", "y", ".", "g", "o", "o", "g",
    "l", "e", ".", "c", "o", "m", "/", "s", "t", "o", "r", "e", "/", "a", "p", "p", "s",
    "/", "d", "e", "t", "a", "i", "l", "s", "?", "i", "d", "=">>

\* 'https://play.google.com/store/search?c=apps&q='
SearchURLPrefix ==
    <<"h", "t", "t", "p", "s", ":", "/", "/", "p", "l", "a", "y", ".", "g", "o", "o", "g",
    "l", "e", ".", "c", "o", "m", "/", "s", "t", "o", "r", "e", "/", "s", "e", "a", "r",
    "c", "h", "?", "c", "=", "a", "p", "p", "s", "&", "q", "=">>

\* 'https://play.google.com'
PlayHost ==
    <<"h", "t", "t", "p", "s", ":", "/", "/", "p", "l", "a", "y", ".", "g", "o", "o", "g",
    "l", "e", ".", "c", "o", "m">>

\* ' - Apps on Google Play'
TitleSuffix ==
    <<" ", "-", " ", "A", "p", "p", "s", " ", "o", "n", " ", "G", "o", "o", "g", "l", "e",
    " ", "P", "l", "a", "y">>

\* 'status '
MsgStatus ==
    <<"s", "t", "a", "t", "u", "s", " ">>

\* 'not found'
MsgNotFound ==
    <<"n", "o", "t", " ", "f", "o", "u", "n", "d">>

\* 'app not found or unable to parse'
MsgAppNotFound ==
    <<"a", "p", "p", " ", "n", "o", "t", " ", "f", "o", "u", "n", "d", " ", "o", "r", " ",
    "u", "n", "a", "b", "l", "e", " ", "t", "o", " ", "p", "a", "r", "s", "e">>

\* 'search failed: '
MsgSearchFailed ==
    <<"s", "e", "a", "r", "c", "h", " ", "f", "a", "i", "l", "e", "d", ":", " ">>

\* 'package not found in search results'
MsgNoSearchHit ==
    <<"p", "a", "c", "k", "a", "g", "e", " ", "n", "o", "t", " ", "f", "o", "u", "n", "d",
    " ", "i", "n", " ", "s", "e", "a", "r", "c", "h", " ", "r", "e", "s", "u", "l", "t",
    "s">>

\* 'cannot detect platform for '
MsgCannotDetect ==
    <<"c", "a", "n", "n", "o", "t", " ", "d", "e", "t", "e", "c", "t", " ", "p", "l", "a",
    "t", "f", "o", "r", "m", " ", "f", "o", "r", " ">>

\* 'resolve '
MsgResolve ==
    <<"r", "e", "s", "o", "l", "v", "e", " ">>

\* 'unknown field '
MsgUnknownField ==
    <<"u", "n", "k", "n", "o", "w", "n", " ", "f", "i", "e", "l", "d", " ">>

\* 'no valid fields specified'
MsgNoFields ==
    <<"n", "o", " ", "v", "a", "l", "i", "d", " ", "f", "i", "e", "l", "d", "s", " ", "s",
    "p", "e", "c", "i", "f", "i", "e", "d">>

\* 'Get '
MsgGet ==
    <<"G", "e", "t", " ">>

\* 'EOF'
CauseEOF ==
    <<"E", "O", "F">>

\* 'unexpected EOF'
CauseUnexpectedEOF ==
    <<"u", "n", "e", "x", "p", "e", "c", "t", "e", "d", " ", "E", "O", "F">>

\* '404 Not Found'
Status404 ==
    <<"4", "0", "4", " ", "N", "o", "t", " ", "F", "o", "u", "n", "d">>

\* '500 Internal Server Error'
Status500 ==
    <<"5", "0", "0", " ", "I", "n", "t", "e", "r", "n", "a", "l", " ", "S", "e", "r", "v",
    "e", "r", " ", "E", "r", "r", "o", "r">>

\* '200 OK'
Status200 ==
    <<"2", "0", "0", " ", "O", "K">>

\* '404'
Str404 ==
    <<"4", "0", "4">>

\* 'unable to parse'
StrUnableToParse ==
    <<"u", "n", "a", "b", "l", "e", " ", "t", "o", " ", "p", "a", "r", "s", "e">>

\* 'http'
StrHTTP ==
    <<"h", "t", "t", "p">>

\* 'id'
StrID ==
    <<"i", "d">>

\* 'jp'
CountryJP ==
    <<"j", "p">>

(***************************************************************************)
(* The functions of package strings and strconv the program calls.         *)
(***************************************************************************)
\* unicode.IsSpace, on the characters of the model
IsSpace(c) == c \in {SP, TAB, LF, CR}

\* ASCII control characters and Unicode format characters of the model
IsControl(c) == c \in {TAB, LF, CR, BEL, LRE}

MinOf(S) == CHOOSE i \in S : \A j \in S : i <= j

MaxOf(S) == CHOOSE i \in S : \A j \in S : i >= j

\* strings.TrimSpace
TrimSpace(s) ==
    LET keep == {i \in 1..Len(s) : ~IsSpace(s[i])}
    IN  IF keep = {} THEN <<>> ELSE SubSeq(s, MinOf(keep), MaxOf(keep))

\* strings.ReplaceAll(s, old, new) for one-character old and new
ReplaceAll(s, old, new) ==
    [i \in 1..Len(s) |-> IF s[i] = old THEN new ELSE s[i]]

\* strings.Contains
Contains(s, sub) ==
    \E i \in 0..(Len(s) - Len(sub)) : SubSeq(s, i + 1, i + Len(sub)) = sub

\* strings.HasPrefix
HasPrefix(s, p) == Len(s) >= Len(p) /\ SubSeq(s, 1, Len(p)) = p

\* strings.HasSuffix
HasSuffix(s, p) ==
    Len(s) >= Len(p) /\ SubSeq(s, Len(s) - Len(p) + 1, Len(s)) = p

\* strings.TrimSuffix
TrimSuffix(s, p) ==
    IF HasSuffix(s, p) THEN SubSeq(s, 1, Len(s) - Len(p)) ELSE s

RECURSIVE Split(_, _)
\* strings.Split(s, sep) for a one-character separator
Split(s, sep) ==
    LET at == {i \in 1..Len(s) : s[i] = sep}
    IN  IF at = {} THEN <<s>>
        ELSE <<SubSeq(s, 1, MinOf(at) - 1)>>
                 \o Split(SubSeq(s, MinOf(at) + 1, Len(s)), sep)

RECURSIVE Join(_, _)
\* strings.Join(parts, sep)
Join(parts, sep) ==
    IF parts = <<>> THEN <<>>
    ELSE IF Len(parts) = 1 THEN parts[1]
    ELSE parts[1] \o sep \o Join(Tail(parts), sep)

\* unicode.ToLower, on the characters of the model
ToLower(c) ==
    IF c \in UpperLetters
    THEN LowerSeq[CHOOSE i \in 1..Len(UpperSeq) : UpperSeq[i] = c]
    ELSE c

\* strings.EqualFold
EqualFold(a, b) ==
    Len(a) = Len(b) /\ \A i \in 1..Len(a) : ToLower(a[i]) = ToLower(b[i])

\* how %q (strconv.Quote) writes one character
QuoteChar(c) ==
    CASE c = TAB -> <<"\\", "t">>
      [] c = LF -> <<"\\", "n">>
      [] c = CR -> <<"\\", "r">>
      [] c = BEL -> <<"\\", "a">>
      [] c = LRE -> <<"\\", "u", "2", "0", "2", "a">>
      [] c = "\"" -> <<"\\", "\"">>
      [] c = "\\" -> <<"\\", "\\">>
      [] OTHER -> <<c>>

RECURSIVE QuoteBody(_)
QuoteBody(s) ==
    IF s = <<>> THEN <<>> ELSE QuoteChar(Head(s)) \o QuoteBody(Tail(s))

\* fmt's %q
Quote(s) == <<"\"">> \o QuoteBody(s) \o <<"\"">>

(***************************************************************************)
(* Errors and records.                                                     *)
(***************************************************************************)
\* the nil error
NoErr == [ok |-> TRUE, msg |-> <<>>]

\* errors.New(m), fmt.Errorf(m)
Err(m) == [ok |-> FALSE, msg |-> m]

\* type record
Rec(n, p, u) == [Name |-> n, Publisher |-> p, URL |-> u]

\* record{}
EmptyRecord == Rec(<<>>, <<>>, <<>>)

(***************************************************************************)
(* Field list.                                                             *)
(***************************************************************************)
allowedFields == <<FieldName, FieldPublisher, FieldURL>>

fieldSet == {allowedFields[i] : i \in 1..Len(allowedFields)}

RECURSIVE parseFieldsLoop(_, _)
\* the loop of parseFields over parts, res being the fields kept so far
parseFieldsLoop(parts, res) ==
    IF parts = <<>>
    THEN IF Len(res) = 0
         THEN [res |-> <<>>, err |-> Err(MsgNoFields)]
         ELSE [res |-> res, err |-> NoErr]
    ELSE LET p == TrimSpace(Head(parts))
         IN  IF p = <<>> THEN parseFieldsLoop(Tail(parts), res)
             ELSE IF p \notin fieldSet
                  THEN [res |-> <<>>, err |-> Err(MsgUnknownField \o Quote(p))]
             ELSE IF \E i \in 1..Len(res) : res[i] = p
                  THEN parseFieldsLoop(Tail(parts), res)
             ELSE parseFieldsLoop(Tail(parts), Append(res, p))

parseFields(s) == parseFieldsLoop(Split(s, ","), <<>>)

(***************************************************************************)
(* Sanitizer and row printer.                                              *)
(***************************************************************************)
\* sanitize with the replacement of "\n" left out
sanitizeKeepsNewline(s) ==
    IF s = <<>> THEN s
    ELSE TrimSpace(ReplaceAll(ReplaceAll(s, TAB, SP), CR, SP))

sanitize(s) ==
    IF s = <<>> THEN s
    ELSE TrimSpace(ReplaceAll(ReplaceAll(ReplaceAll(s, TAB, SP), CR, SP), LF, SP))

\* the text printHeader writes
printHeader(fs) == Join(fs, <<TAB>>) \o <<LF>>

\* the switch of printFields
FieldValue(rec, f) ==
    CASE f = FieldName -> rec.Name
      [] f = FieldPublisher -> rec.Publisher
      [] f = FieldURL -> rec.URL
      [] OTHER -> <<>>

\* the text printFields writes
printFields(rec, fs) ==
    Join([i \in 1..Len(fs) |-> sanitize(FieldValue(rec, fs[i]))], <<TAB>>) \o <<LF>>

(***************************************************************************)
(* Platform detection.                                                     *)
(***************************************************************************)
\* reIOS = ^[0-9]+$
reIOS(s) == Len(s) >= 1 /\ \A i \in 1..Len(s) : s[i] \in Digits

\* the class [A-Za-z0-9_]
IsWordChar(c) == c \in Digits \cup LowerLetters \cup UpperLetters \cup {"_"}

RECURSIVE reAndroidRun(_, _, _)
\* the automaton of reAndroid = ^[A-Za-z0-9_]+(\.[A-Za-z0-9_]+)+$ reading s from
\* position i: at "start" no character is read, in "first" the first label is
\* being read, at "dot" a dot was just read, in "more" a later label is being read
reAndroidRun(s, i, st) ==
    IF i > Len(s) THEN st = "more"
    ELSE IF IsWordChar(s[i])
         THEN reAndroidRun(s, i + 1, IF st \in {"start", "first"} THEN "first" ELSE "more")
    ELSE IF s[i] = "." /\ st \in {"first", "more"}
         THEN reAndroidRun(s, i + 1, "dot")
    ELSE FALSE

\* reAndroid written as ^[A-Za-z0-9_.]+$, one class for labels and dots
reAndroidLoose(s) ==
    Len(s) >= 1 /\ \A i \in 1..Len(s) : IsWordChar(s[i]) \/ s[i] = "."

reAndroid(s) == reAndroidRun(s, 1, "start")

(***************************************************************************)
(* What httpClient.Get can return.  kind "transport" is a non-nil error of *)
(* Get; kind "http" is a response with a status, whose body can be read    *)
(* and decoded (bodyOK) or not.  A body is described by what the decoder   *)
(* or the selectors of the caller find in it.                              *)
(***************************************************************************)
OKResp ==
    [kind |-> "http", code |-> 200, status |-> Status200, bodyOK |-> TRUE,
     resultCount |-> 0, results |-> <<>>,
     h1 |-> <<>>, title |-> <<>>, author |-> <<>>, devlink |-> <<>>,
     hrefs |-> <<>>]

TransportFail == [OKResp EXCEPT !.kind = "transport"]

NotFound404 == [OKResp EXCEPT !.code = 404, !.status = Status404]

ServerError500 == [OKResp EXCEPT !.code = 500, !.status = Status500]

BrokenBody == [OKResp EXCEPT !.bodyOK = FALSE]

\* the error Get returns: a *url.Error, "Get \"<url>\": <cause>"
URLError(url, cause) == Err(MsgGet \o Quote(url) \o <<":", " ">> \o cause)

\* one element of results in the lookup payload
Track(name, seller) == [trackName |-> name, sellerName |-> seller]

IOSFound(name, seller) ==
    [OKResp EXCEPT !.resultCount = 1, !.results = <<Track(name, seller)>>]

\* the answers of the lookup endpoint
IOSResponses ==
    { TransportFail, ServerError500, BrokenBody, OKResp,
      IOSFound(<<"M", "y", ",", "A", "p", "p">>, <<"D", "e", "v">>),
      IOSFound(<<"M", "y", LF, "A", "p", "p">>, <<SP, "D", TAB, "\"", CR>>) }

Page(h1, title, author, devlink) ==
    [OKResp EXCEPT !.h1 = h1, !.title = title, !.author = author, !.devlink = devlink]

\* the answers of the storefront page
DirectResponses ==
    { TransportFail, NotFound404, ServerError500, BrokenBody,
      \* a page with none of the elements
      OKResp,
      Page(<<SP, "A", "p", "p", LF>>, <<>>, <<"D", "e", "v">>, <<>>),
      Page(<<>>, <<"A", ",", "B">> \o TitleSuffix, <<>>, <<"D", BEL, "v">>) }

SearchPage(hrefs) == [OKResp EXCEPT !.hrefs = hrefs]

\* "/store/apps/details?id="
DetailsPath == SubSeq(PlayStoreURLPrefix, Len(PlayHost) + 1, Len(PlayStoreURLPrefix))

\* the answers of the search page
SearchResponses ==
    { TransportFail, ServerError500,
      \* no link at all
      OKResp,
      SearchPage(<< DetailsPath \o <<"z", ".", "z">>,
                    DetailsPath,
                    DetailsPath \o <<"a", ".", "b", "&", "h", "l", "=", "e", "n">>,
                    PlayStoreURLPrefix \o <<"x", "4", "0", "4", ".", "y">> >>) }

(***************************************************************************)
(* iOS resolver.                                                           *)
(***************************************************************************)
\* the URL the closure lookup of fetchIOS requests
lookupURL(appID, country) ==
    LookupURLPrefix \o appID
        \o (IF country # <<>> THEN CountryParam \o country ELSE <<>>)

\* the closure lookup of fetchIOS, given the answer of the endpoint
lookup(appID, country, resp) ==
    IF resp.kind = "transport"
    THEN [rec |-> EmptyRecord, err |-> URLError(lookupURL(appID, country), CauseEOF)]
    ELSE IF resp.code # 200
    THEN [rec |-> EmptyRecord, err |-> Err(MsgStatus \o resp.status)]
    ELSE IF ~resp.bodyOK
    THEN [rec |-> EmptyRecord, err |-> Err(CauseUnexpectedEOF)]
    ELSE IF resp.resultCount = 0 \/ Len(resp.results) = 0
    THEN [rec |-> EmptyRecord, err |-> Err(MsgNotFound)]
    ELSE [rec |-> Rec(resp.results[1].trackName, resp.results[1].sellerName,
                      AppStoreURLPrefix \o appID),
          err |-> NoErr]

(***************************************************************************)
(* Android resolver.                                                       *)
(***************************************************************************)
buildPlayStoreURL(pkg) == PlayStoreURLPrefix \o pkg

\* fetchAndroidDirect, given the answer of the storefront
fetchAndroidDirect(pkg, resp) ==
    LET storeURL == buildPlayStoreURL(pkg)
        fail(e) == [rec |-> Rec(<<>>, <<>>, storeURL), err |-> e]
        h1 == TrimSpace(resp.h1)
        title == TrimSpace(resp.title)
        name == IF h1 # <<>> THEN h1
                ELSE IF Contains(title, TitleSuffix)
                     THEN TrimSuffix(title, TitleSuffix)
                ELSE <<>>
        author == TrimSpace(resp.author)
        publisher == IF author # <<>> THEN author ELSE TrimSpace(resp.devlink)
    IN  IF resp.kind = "transport" THEN fail(URLError(storeURL, CauseEOF))
        ELSE IF resp.code # 200 THEN fail(Err(MsgStatus \o resp.status))
        ELSE IF ~resp.bodyOK THEN fail(Err(CauseUnexpectedEOF))
        ELSE IF name = <<>> THEN fail(Err(MsgAppNotFound))
        ELSE [rec |-> Rec(name, publisher, storeURL), err |-> NoErr]

isNotFoundError(err) ==
    IF err.ok THEN FALSE
    ELSE \/ Contains(err.msg, Str404)
         \/ Contains(err.msg, MsgNotFound)
         \/ Contains(err.msg, StrUnableToParse)

\* how url.QueryEscape writes one character
EscapeChar(c) ==
    IF IsWordChar(c) \/ c \in {".", "-", "~"} THEN <<c>>
    ELSE IF c = SP THEN <<"+">>
    ELSE <<"%", c>>

RECURSIVE QueryEscape(_)
\* url.QueryEscape
QueryEscape(s) ==
    IF s = <<>> THEN <<>> ELSE EscapeChar(Head(s)) \o QueryEscape(Tail(s))

\* the URL searchAndroidPackage requests
searchURL(pkg) == SearchURLPrefix \o QueryEscape(pkg)

\* u.Query().Get(key) of a parsed URL: the value of the first key=value pair
\* of the query string
QueryGet(u, key) ==
    LET noFrag == Split(u, "#")[1]
        q == IF Contains(noFrag, <<"?">>)
             THEN SubSeq(noFrag, MinOf({i \in 1..Len(noFrag) : noFrag[i] = "?"}) + 1,
                         Len(noFrag))
             ELSE <<>>
        pairs == Split(q, "&")
        hit == {i \in 1..Len(pairs) : Split(pairs[i], "=")[1] = key}
    IN  IF hit = {} THEN <<>>
        ELSE LET p == pairs[MinOf(hit)]
             IN  IF Len(p) > Len(key) THEN SubSeq(p, Len(key) + 2, Len(p)) ELSE <<>>

extractPackageFromURL(href) ==
    LET full == IF ~HasPrefix(href, StrHTTP) THEN PlayHost \o href ELSE href
    IN  \* url.Parse rejects a URL that holds a control character
        IF \E i \in 1..Len(full) : IsControl(full[i]) THEN <<>>
        ELSE QueryGet(full, StrID)

RECURSIVE firstMatch(_, _)
\* the EachWithBreak callback of searchAndroidPackage over the links found
firstMatch(hrefs, pkg) ==
    IF hrefs = <<>> THEN <<>>
    ELSE LET extractedPkg == extractPackageFromURL(Head(hrefs))
         IN  IF extractedPkg = <<>> THEN firstMatch(Tail(hrefs), pkg)
             ELSE IF EqualFold(extractedPkg, pkg) THEN extractedPkg
             ELSE firstMatch(Tail(hrefs), pkg)

\* searchAndroidPackage, given the answer of the search page
searchAndroidPackage(pkg, resp) ==
    LET foundPkg == firstMatch(resp.hrefs, pkg)
    IN  IF resp.kind = "transport"
        THEN [pkg |-> <<>>, err |-> URLError(searchURL(pkg), CauseEOF)]
        ELSE IF resp.code # 200
        THEN [pkg |-> <<>>, err |-> Err(MsgSearchFailed \o resp.status)]
        ELSE IF ~resp.bodyOK
        THEN [pkg |-> <<>>, err |-> Err(CauseUnexpectedEOF)]
        ELSE IF foundPkg = <<>>
        THEN [pkg |-> <<>>, err |-> Err(MsgNoSearchHit)]
        ELSE [pkg |-> foundPkg, err |-> NoErr]

(***************************************************************************)
(* resolve and process.  A request is a step of its own: the answer is     *)
(* chosen by the network.                                                  *)
(***************************************************************************)
\* the error resolve returns for a token of neither platform
cannotDetect(id) == Err(MsgCannotDetect \o Quote(id))

\* the line fmt.Fprintf(os.Stderr, "resolve %q: %v\n", line, err) writes
diagnostic(ln, err) == MsgResolve \o Quote(ln) \o <<":", " ">> \o err.msg \o <<LF>>

\* a request as the network sees it
Req(op, url, resp) == [op |-> op, url |-> url, resp |-> resp]

\* the entry of log for a line just read
Pending(raw, ln) ==
    [raw |-> raw, line |-> ln, resolved |-> FALSE, returned |-> FALSE,
     rec |-> EmptyRecord, err |-> NoErr, wrote |-> <<>>, said |-> <<>>]

\* what follows b and is not in a
Added(a, b) == SubSeq(b, Len(a) + 1, Len(b))

\* BlankLine with skip-errors applied to blank lines too
BlankLineSkipped(lg) ==
    /\ out' = IF skipErrors THEN out ELSE Append(out, printFields(EmptyRecord, fields))
    /\ errs' = errs
    /\ log' = [lg EXCEPT ![Len(lg)] =
                  [@ EXCEPT !.wrote = Added(out, out'), !.said = Added(errs, errs')]]
    /\ pc' = "scan"

\* process, lines 125-129: the line is blank; lg is log with the entry of this
\* line last
BlankLine(lg) ==
    /\ out' = Append(out, printFields(EmptyRecord, fields))
    /\ errs' = errs
    /\ log' = [lg EXCEPT ![Len(lg)] =
                  [@ EXCEPT !.wrote = Added(out, out'), !.said = Added(errs, errs')]]
    /\ pc' = "scan"

\* AfterResolve with the skip tested before the diagnostic is written
AfterResolveSkipsFirst(ln, rec, err, lg) ==
    /\ errs' = IF err.ok \/ skipErrors THEN errs ELSE Append(errs, diagnostic(ln, err))
    /\ out' = IF ~err.ok /\ skipErrors THEN out
              ELSE Append(out, printFields(rec, fields))
    /\ log' = [lg EXCEPT ![Len(lg)] =
                  [@ EXCEPT !.resolved = TRUE, !.returned = TRUE,
                            !.rec = rec, !.err = err,
                            !.wrote = Added(out, out'), !.said = Added(errs, errs')]]
    /\ pc' = "scan"

\* AfterResolve with the loop left at the first failed line
AfterResolveStops(ln, rec, err, lg) ==
    /\ errs' = IF err.ok THEN errs ELSE Append(errs, diagnostic(ln, err))
    /\ out' = IF ~err.ok /\ skipErrors THEN out
              ELSE Append(out, printFields(rec, fields))
    /\ log' = [lg EXCEPT ![Len(lg)] =
                  [@ EXCEPT !.resolved = TRUE, !.returned = TRUE,
                            !.rec = rec, !.err = err,
                            !.wrote = Added(out, out'), !.said = Added(errs, errs')]]
    /\ pc' = IF err.ok THEN "scan" ELSE "done"

\* process, lines 131-139: resolve(ln) has returned (rec, err); lg is log with
\* the entry of this line last
AfterResolve(ln, rec, err, lg) ==
    /\ errs' = IF err.ok THEN errs ELSE Append(errs, diagnostic(ln, err))
    /\ out' = IF ~err.ok /\ skipErrors THEN out
              ELSE Append(out, printFields(rec, fields))
    /\ log' = [lg EXCEPT ![Len(lg)] =
                  [@ EXCEPT !.resolved = TRUE, !.returned = TRUE,
                            !.rec = rec, !.err = err,
                            !.wrote = Added(out, out'), !.said = Added(errs, errs')]]
    /\ pc' = "scan"

RECURSIVE SeqsUpTo(_, _)
\* the sequences of at most n elements of S
SeqsUpTo(S, n) ==
    IF n = 0 THEN {<<>>}
    ELSE LET shorter == SeqsUpTo(S, n - 1)
         IN  shorter \cup {Append(q, x) : q \in shorter, x \in S}

\* the lines the input stream holds in the runs of process
RawLines ==
    { <<>>,
      <<SP, TAB>>,
      <<SP, "1", "2">>,
      <<"a", ".", "B">>,
      <<"n", "o", SP, "i", "d">> }

\* the answers of the network in the runs of process
IOSSmall ==
    { TransportFail, OKResp,
      IOSFound(<<"M", "y", ",", "A", "p", "p">>, <<"D", "e", "v">>),
      IOSFound(<<"M", "y", LF, "A", "p", "p">>, <<SP, "D", TAB, "\"", CR>>) }

DirectSmall ==
    { TransportFail, OKResp,
      Page(<<SP, "A", TAB, "p", LF>>, <<>>, <<"D", CR, LF, "v">>, <<>>) }

SearchSmall ==
    { OKResp, SearchPage(<<DetailsPath \o <<"a", ".", "b">> >>) }

\* the arguments of --fields main passes on to process
FieldArgs ==
    { <<"n", "a", "m", "e", ",", "p", "u", "b", "l", "i", "s", "h", "e", "r", ",",
        "u", "r", "l">>,
      <<"u", "r", "l", ",", SP, "n", "a", "m", "e", ",", ",", "u", "r", "l">>,
      <<"p", "u", "b", "l", "i", "s", "h", "e", "r">> }

\* main, lines 69-76: process is called with the fields parseFields accepted,
\* on one of the given input streams
InitWith(inputs) ==
    /\ pc = "process"
    /\ fields \in {parseFields(a).res : a \in {b \in FieldArgs : parseFields(b).err.ok}}
    /\ header \in BOOLEAN
    /\ skipErrors \in BOOLEAN
    /\ csv \in BOOLEAN
    /\ input \in inputs
    /\ nread = 0
    /\ line = <<>>
    /\ firstErr = NoErr
    /\ correctPkg = <<>>
    /\ reqs = <<>>
    /\ out = <<>>
    /\ errs = <<>>
    /\ log = <<>>
    /\ retErr = NoErr
    /\ fnIn = <<>>
    /\ fnOut = <<>>

Init == InitWith(SeqsUpTo(RawLines, MaxLines))

\* process, lines 117-121: the header is printed before the first line is read
PrintHeader ==
    /\ pc = "process"
    /\ out' = IF header THEN Append(out, printHeader(fields)) ELSE out
    /\ pc' = "scan"
    /\ UNCHANGED <<fields, header, skipErrors, csv, nread, line, firstErr, correctPkg,
                   reqs, errs, input, log, retErr, fnIn, fnOut>>

\* process, lines 122-130, and resolve, lines 181-189: the scanner returns the
\* next line
Scan ==
    /\ pc = "scan"
    /\ nread < Len(input)
    /\ LET raw == input[nread + 1]
           ln == TrimSpace(raw)
           lg == Append(log, Pending(raw, ln))
       IN  /\ nread' = nread + 1
           /\ line' = ln
           /\ reqs' = <<>>
           /\ firstErr' = NoErr
           /\ correctPkg' = <<>>
           /\ IF ln = <<>> THEN BlankLine(lg)
              ELSE IF reIOS(ln)
              THEN /\ pc' = "lookup"
                   /\ log' = [lg EXCEPT ![Len(lg)] = [@ EXCEPT !.resolved = TRUE]]
                   /\ UNCHANGED <<out, errs>>
              ELSE IF reAndroid(ln)
              THEN /\ pc' = "direct"
                   /\ log' = [lg EXCEPT ![Len(lg)] = [@ EXCEPT !.resolved = TRUE]]
                   /\ UNCHANGED <<out, errs>>
              ELSE AfterResolve(ln, EmptyRecord, cannotDetect(ln), lg)
    /\ UNCHANGED <<fields, header, skipErrors, csv, input, retErr, fnIn, fnOut>>

\* Lookup with the jp lookup tried only after an empty result set, any other
\* failure being returned at once
LookupFallsBackOnEmptyOnly(resps) ==
    /\ pc = "lookup"
    /\ \E resp \in resps :
         LET r == lookup(line, <<>>, resp)
         IN  /\ reqs' = Append(reqs, Req("lookup", lookupURL(line, <<>>), resp))
             /\ IF r.err.ok
                THEN /\ AfterResolve(line, r.rec, NoErr, log)
                     /\ UNCHANGED firstErr
                ELSE IF r.err = Err(MsgNotFound)
                THEN /\ firstErr' = r.err
                     /\ pc' = "lookupJP"
                     /\ UNCHANGED <<out, errs, log>>
                ELSE /\ AfterResolve(line, Rec(<<>>, <<>>, AppStoreURLPrefix \o line),
                                     r.err, log)
                     /\ UNCHANGED firstErr
    /\ UNCHANGED <<fields, header, skipErrors, csv, nread, line, correctPkg, input,
                   retErr, fnIn, fnOut>>

\* fetchIOS, lines 231-235: the lookup without a country, answered by one of resps
Lookup(resps) ==
    /\ pc = "lookup"
    /\ \E resp \in resps :
         LET r == lookup(line, <<>>, resp)
         IN  /\ reqs' = Append(reqs, Req("lookup", lookupURL(line, <<>>), resp))
             /\ IF r.err.ok
                THEN /\ AfterResolve(line, r.rec, NoErr, log)
                     /\ UNCHANGED firstErr
                ELSE /\ firstErr' = r.err
                     /\ pc' = "lookupJP"
                     /\ UNCHANGED <<out, errs, log>>
    /\ UNCHANGED <<fields, header, skipErrors, csv, nread, line, correctPkg, input,
                   retErr, fnIn, fnOut>>

\* fetchIOS, lines 236-242: the lookup with country jp
LookupJP(resps) ==
    /\ pc = "lookupJP"
    /\ \E resp \in resps :
         LET r == lookup(line, CountryJP, resp)
         IN  /\ reqs' = Append(reqs, Req("lookup", lookupURL(line, CountryJP), resp))
             /\ IF r.err.ok
                THEN AfterResolve(line, r.rec, NoErr, log)
                ELSE AfterResolve(line, Rec(<<>>, <<>>, AppStoreURLPrefix \o line),
                                  firstErr, log)
    /\ UNCHANGED <<fields, header, skipErrors, csv, nread, line, firstErr, correctPkg,
                   input, retErr, fnIn, fnOut>>

\* fetchAndroid, lines 246-253 and 263-264: the direct fetch
Direct(resps) ==
    /\ pc = "direct"
    /\ \E resp \in resps :
         LET r == fetchAndroidDirect(line, resp)
         IN  /\ reqs' = Append(reqs, Req("direct", buildPlayStoreURL(line), resp))
             /\ IF r.err.ok
                THEN /\ AfterResolve(line, r.rec, NoErr, log)
                     /\ UNCHANGED firstErr
                ELSE IF isNotFoundError(r.err)
                THEN /\ firstErr' = r.err
                     /\ pc' = "search"
                     /\ UNCHANGED <<out, errs, log>>
                ELSE /\ AfterResolve(line, Rec(<<>>, <<>>, buildPlayStoreURL(line)),
                                     r.err, log)
                     /\ UNCHANGED firstErr
    /\ UNCHANGED <<fields, header, skipErrors, csv, nread, line, correctPkg, input,
                   retErr, fnIn, fnOut>>

\* fetchAndroid, lines 254-258: the search for the package name
Search(resps) ==
    /\ pc = "search"
    /\ \E resp \in resps :
         LET s == searchAndroidPackage(line, resp)
         IN  /\ reqs' = Append(reqs, Req("search", searchURL(line), resp))
             /\ IF ~s.err.ok
                THEN /\ AfterResolve(line, Rec(<<>>, <<>>, buildPlayStoreURL(line)),
                                     firstErr, log)
                     /\ UNCHANGED correctPkg
                ELSE /\ correctPkg' = s.pkg
                     /\ pc' = "retry"
                     /\ UNCHANGED <<out, errs, log>>
    /\ UNCHANGED <<fields, header, skipErrors, csv, nread, line, firstErr, input,
                   retErr, fnIn, fnOut>>

\* fetchAndroid, lines 259-260: the direct fetch under the name the search found
Retry(resps) ==
    /\ pc = "retry"
    /\ \E resp \in resps :
         LET r == fetchAndroidDirect(correctPkg, resp)
         IN  /\ reqs' = Append(reqs, Req("direct", buildPlayStoreURL(correctPkg), resp))
             /\ AfterResolve(line, r.rec, r.err, log)
    /\ UNCHANGED <<fields, header, skipErrors, csv, nread, line, firstErr, correctPkg,
                   input, retErr, fnIn, fnOut>>

\* process, lines 122 and 141: the scanner reports the end of the input
ScanEOF ==
    /\ pc = "scan"
    /\ nread = Len(input)
    /\ pc' = "done"
    /\ retErr' = NoErr
    /\ UNCHANGED <<fields, header, skipErrors, csv, nread, line, firstErr, correctPkg,
                   reqs, out, errs, input, log, fnIn, fnOut>>

\* process, lines 122 and 141: reading the input fails
ScanFail ==
    /\ pc = "scan"
    /\ pc' = "done"
    /\ retErr' = Err(CauseUnexpectedEOF)
    /\ UNCHANGED <<fields, header, skipErrors, csv, nread, line, firstErr, correctPkg,
                   reqs, out, errs, input, log, fnIn, fnOut>>

\* a run of process over at most MaxLines lines
Next ==
    \/ PrintHeader
    \/ Scan
    \/ Lookup(IOSSmall)
    \/ LookupJP(IOSSmall)
    \/ Direct(DirectSmall)
    \/ Search(SearchSmall)
    \/ Retry(DirectSmall)
    \/ ScanEOF
    \/ ScanFail

Spec == Init /\ [][Next]_vars

(***************************************************************************)
(* One call of resolve, over every answer of the network.                  *)
(***************************************************************************)
\* the tokens given to resolve
Tokens ==
    { <<"1", "2">>,
      <<"a", ".", "B">>,
      <<"x", "4", "0", "4", ".", "y">>,
      <<"n", "o", SP, "i", "d">> }

InitResolve == InitWith({<<t>> : t \in Tokens})

NextResolve ==
    \/ PrintHeader
    \/ Scan
    \/ Lookup(IOSResponses)
    \/ LookupJP(IOSResponses)
    \/ Direct(DirectResponses)
    \/ Search(SearchResponses)
    \/ Retry(DirectResponses)
    \/ ScanEOF
    \/ ScanFail

ResolveSpec == InitResolve /\ [][NextResolve]_vars

(***************************************************************************)
(* Platform detection, over every token of at most MaxTokLen characters.   *)
(***************************************************************************)
\* a digit, a letter, an underscore, a dot, a space, a hyphen, a letter
\* outside ASCII
DetectChars == {"7", "a", "_", ".", SP, "-", EACUTE}

InitDetect ==
    /\ InitWith({<<t>> : t \in SeqsUpTo(DetectChars, MaxTokLen) \ {<<>>}})
    /\ fields = allowedFields
    /\ header
    /\ ~skipErrors
    /\ ~csv

NextDetect ==
    \/ PrintHeader
    \/ Scan
    \/ Lookup({TransportFail})
    \/ LookupJP({TransportFail})
    \/ Direct({OKResp})
    \/ Search({OKResp})
    \/ ScanEOF
    \/ ScanFail

DetectSpec == InitDetect /\ [][NextDetect]_vars

(***************************************************************************)
(* Calls of the pure functions parseFields and sanitize.                   *)
(***************************************************************************)
\* a call of the function named start on one of inputs
InitCall(start, inputs) ==
    /\ pc = start
    /\ fnIn \in inputs
    /\ fnOut = <<>>
    /\ fields = <<>>
    /\ header = FALSE
    /\ skipErrors = FALSE
    /\ csv = FALSE
    /\ input = <<>>
    /\ nread = 0
    /\ line = <<>>
    /\ firstErr = NoErr
    /\ correctPkg = <<>>
    /\ reqs = <<>>
    /\ out = <<>>
    /\ errs = <<>>
    /\ log = <<>>
    /\ retErr = NoErr

\* the items of a --fields argument
FieldItems ==
    { FieldName, FieldPublisher, FieldURL,
      <<"b", "u", "n", "d", "l", "e">>,
      <<SP, "u", "r", "l", SP>>,
      <<"N", "a", "m", "e">>,
      <<SP>>,
      <<>> }

InitFields ==
    InitCall("parseFields",
             {Join(items, <<",">>) : items \in SeqsUpTo(FieldItems, MaxItems) \ {<<>>}})

\* main, line 69: fields, err := parseFields(fieldsCSV)
CallParseFields ==
    /\ pc = "parseFields"
    /\ fnOut' = parseFields(fnIn)
    /\ pc' = "returned"
    /\ UNCHANGED <<fields, header, skipErrors, csv, nread, line, firstErr, correctPkg,
                   reqs, out, errs, input, log, retErr, fnIn>>

NextFields == CallParseFields

FieldsSpec == InitFields /\ [][NextFields]_vars

\* the characters of the strings given to sanitize
SanChars == {"a", SP, TAB, LF, CR, BEL, LRE}

InitSanitize == InitCall("sanitize", SeqsUpTo(SanChars, MaxSanLen))

\* printFields, line 164: cols[i] = sanitize(val)
CallSanitize ==
    /\ pc = "sanitize"
    /\ fnOut' = sanitize(fnIn)
    /\ pc' = "returned"
    /\ UNCHANGED <<fields, header, skipErrors, csv, nread, line, firstErr, correctPkg,
                   reqs, out, errs, input, log, retErr, fnIn>>

NextSanitize == CallSanitize

SanitizeSpec == InitSanitize /\ [][NextSanitize]_vars

(***************************************************************************)
(* Properties of process.                                                  *)
(***************************************************************************)
\* number of occurrences of the character c in s
CountChar(s, c) == Cardinality({i \in 1..Len(s) : s[i] = c})

\* w is one line of text: it ends with its only newline
OneLine(w) == w # <<>> /\ w[Len(w)] = LF /\ CountChar(w, LF) = 1

\* the entry e of log is of a line whose resolution failed
Failed(e) == e.returned /\ ~e.err.ok

\* the entry e of log is of a line process is done with
Finished(e) == e.returned \/ e.line = <<>>

\* C1: every row process writes (header, blank line, resolved line, failed
\* line) is one line of text with as many tab-separated columns as there are
\* requested fields: len(fields)-1 tabs, no carriage return, one final newline.
C1_RowHasOneColumnPerField ==
    \A k \in 1..Len(out) :
        /\ OneLine(out[k])
        /\ CountChar(out[k], TAB) = Len(fields) - 1
        /\ CountChar(out[k], CR) = 0
        /\ Len(Split(SubSeq(out[k], 1, Len(out[k]) - 1), TAB)) = Len(fields)

\* C1 witness: with the header on, a row was written for a record whose name
\* holds a newline and whose publisher holds a tab and a carriage return, and
\* a row was written for a failed line.
C1_Witness ==
    /\ header
    /\ Len(fields) = 3
    /\ \E k \in 1..Len(log) :
          /\ CountChar(log[k].rec.Name, LF) > 0
          /\ CountChar(log[k].rec.Publisher, TAB) > 0
          /\ CountChar(log[k].rec.Publisher, CR) > 0
          /\ Len(log[k].wrote) = 1
    /\ \E k \in 1..Len(log) : Failed(log[k]) /\ Len(log[k].wrote) = 1

\* C2: a non-blank line whose resolution fails writes exactly one diagnostic
\* line to the error stream, with skip-errors on or off, and no data row with
\* skip-errors on, exactly one with it off; a line that resolves and a blank
\* line write no diagnostic.
C2_OneDiagnosticPerFailedLine ==
    /\ \A k \in 1..Len(log) :
          /\ Failed(log[k]) =>
                /\ Len(log[k].said) = 1
                /\ OneLine(log[k].said[1])
                /\ Len(log[k].wrote) = IF skipErrors THEN 0 ELSE 1
          /\ ~Failed(log[k]) => log[k].said = <<>>
    /\ Len(errs) = Cardinality({k \in 1..Len(log) : Failed(log[k])})

\* C2 witness: with skip-errors on, a line failed and another line resolved.
C2_Witness ==
    /\ skipErrors
    /\ pc = "done"
    /\ \E k \in 1..Len(log) : Failed(log[k]) /\ log[k].resolved
    /\ \E k \in 1..Len(log) : log[k].returned /\ log[k].err.ok

\* the rows process has written for the lines it is done with, skip-errors off
ExpectedRows ==
    LET n == Cardinality({k \in 1..Len(log) : Finished(log[k])})
    IN  [k \in 1..n |-> printFields(log[k].rec, fields)]

\* C3: with skip-errors off the output is the header row once and first iff the
\* header is on (also for the empty input), then one data row per input line,
\* the k-th row being the row of the k-th line; a failed line does not stop the
\* loop, and process returns an error only when reading the input fails.
C3_HeaderThenOneRowPerLine ==
    ~skipErrors =>
        /\ \A k \in 1..Len(log) : log[k].raw = input[k]
        /\ \A k \in 1..(Len(log) - 1) : Finished(log[k])
        /\ pc # "process" =>
              out = (IF header THEN <<printHeader(fields)>> ELSE <<>>) \o ExpectedRows
        /\ pc = "done" /\ retErr.ok =>
              /\ Len(log) = Len(input)
              /\ \A k \in 1..Len(log) : Finished(log[k])
              /\ Len(out) = (IF header THEN 1 ELSE 0) + Len(input)
        /\ ~retErr.ok => pc = "done" /\ retErr = Err(CauseUnexpectedEOF)

\* C3 witness: skip-errors off, header on, the first of two lines failed and
\* the run ended without error.
C3_Witness ==
    /\ ~skipErrors
    /\ header
    /\ pc = "done"
    /\ retErr.ok
    /\ Len(input) = 2
    /\ Len(log) = 2
    /\ Failed(log[1])

\* the row of len(fs) empty columns
EmptyRow(fs) == [i \in 1..Len(fs) |-> IF i < Len(fs) THEN TAB ELSE LF]

\* C4: a blank line (empty or whitespace only) makes process write exactly one
\* row of empty fields, without calling the resolver, without a request and
\* without a diagnostic, with skip-errors off and with skip-errors on.
C4_BlankLineGivesEmptyRow ==
    \A k \in 1..Len(log) :
        (\A i \in 1..Len(log[k].raw) : IsSpace(log[k].raw[i])) =>
            /\ log[k].wrote = <<EmptyRow(fields)>>
            /\ log[k].said = <<>>
            /\ ~log[k].resolved
            /\ k = Len(log) => reqs = <<>> /\ pc \in {"scan", "done"}

\* C4 witness: with skip-errors on, a line of whitespace only was read after a
\* line that failed.
C4_Witness ==
    /\ skipErrors
    /\ Len(log) = 2
    /\ Failed(log[1])
    /\ log[2].raw # <<>>
    /\ log[2].line = <<>>

(***************************************************************************)
(* Properties of resolve.                                                  *)
(***************************************************************************)
\* t is made only of digits
AllDigits(t) == t # <<>> /\ \A i \in 1..Len(t) : t[i] \in Digits

\* t is two or more non-empty labels of letters, digits or underscores joined
\* by single dots
AndroidShaped(t) ==
    LET labels == Split(t, ".")
    IN  /\ Len(labels) >= 2
        /\ \A n \in 1..Len(labels) :
              /\ labels[n] # <<>>
              /\ \A i \in 1..Len(labels[n]) :
                    labels[n][i] \in Digits \cup LowerLetters \cup UpperLetters \cup {"_"}

\* the operations of the requests issued for the current line
Ops == {reqs[i].op : i \in 1..Len(reqs)}

\* C5: when the resolution of an iOS ID or of an Android package fails, by
\* whatever path, the record returned with the error has an empty name, an
\* empty publisher and the canonical store URL built from the input token; for
\* iOS the error is the one of the first lookup.
C5_FailedRecordKeepsInputURL ==
    \A k \in 1..Len(log) :
        LET e == log[k]
        IN  /\ Failed(e) /\ AllDigits(e.line) =>
                  /\ e.rec = Rec(<<>>, <<>>, AppStoreURLPrefix \o e.line)
                  /\ k = Len(log) => e.err = lookup(e.line, <<>>, reqs[1].resp).err
            /\ Failed(e) /\ AndroidShaped(e.line) =>
                  e.rec = Rec(<<>>, <<>>, PlayStoreURLPrefix \o e.line)

FieldBundle == <<"b", "u", "n", "d", "l", "e">>

\* the items of the list s, trimmed, the empty ones dropped
ItemsOf(s) ==
    LET parts == Split(s, ",")
        nonEmpty(p) == p # <<>>
    IN  SelectSeq([i \in 1..Len(parts) |-> TrimSpace(parts[i])], nonEmpty)

\* items without the later occurrences of an item
FirstOccurrences(items) ==
    LET keep == {i \in 1..Len(items) : \A j \in 1..(i - 1) : items[j] # items[i]}
    IN  [n \in 1..Cardinality(keep) |->
            items[CHOOSE i \in keep : Cardinality({j \in keep : j <= i}) = n]]

\* C7: parseFields accepts exactly bundle, name, publisher and url: a list made
\* only of these gives them in order of first occurrence without duplicates;
\* any other item, or no item at all, gives an error and no list.
C7_ParseFieldsAcceptsFourNames ==
    pc = "returned" =>
        LET items == ItemsOf(fnIn)
        IN  IF /\ items # <<>>
               /\ \A i \in 1..Len(items) :
                     items[i] \in {FieldBundle, FieldName, FieldPublisher, FieldURL}
            THEN fnOut.err.ok /\ fnOut.res = FirstOccurrences(items)
            ELSE ~fnOut.err.ok /\ fnOut.res = <<>>

\* C8: the output of sanitize holds no tab, carriage return, newline, ASCII
\* control or Unicode format character, its whitespace runs are single spaces,
\* it has no leading or trailing whitespace, the empty input gives the empty
\* output, and sanitize of the output is the output.
C8_SanitizeStripsControlCharacters ==
    pc = "returned" =>
        /\ \A i \in 1..Len(fnOut) : ~IsControl(fnOut[i])
        /\ \A i \in 1..(Len(fnOut) - 1) : ~(IsSpace(fnOut[i]) /\ IsSpace(fnOut[i + 1]))
        /\ fnOut # <<>> => ~IsSpace(fnOut[1]) /\ ~IsSpace(fnOut[Len(fnOut)])
        /\ fnIn = <<>> => fnOut = <<>>
        /\ sanitize(fnOut) = fnOut

RECURSIVE DoubleQuotes(_)
\* v with every double quote doubled
DoubleQuotes(v) ==
    IF v = <<>> THEN <<>>
    ELSE (IF Head(v) = "\"" THEN <<"\"", "\"">> ELSE <<Head(v)>>) \o DoubleQuotes(Tail(v))

\* a value as a CSV row holds it
CSVValue(v) ==
    IF \E i \in 1..Len(v) : v[i] \in {",", "\"", LF, CR}
    THEN <<"\"">> \o DoubleQuotes(v) \o <<"\"">>
    ELSE v

\* the CSV row of the columns cols
CSVRow(cols) == Join([i \in 1..Len(cols) |-> CSVValue(cols[i])], <<",">>) \o <<LF>>

\* C9: in CSV mode the header row and every data row are joined with commas, a
\* value that holds a comma, a double quote or a line break is wrapped in double
\* quotes with its quotes doubled, any other value is written as it is.
C9_CSVModeJoinsWithCommas ==
    csv =>
        /\ header /\ pc # "process" => out[1] = CSVRow(fields)
        /\ \A k \in 1..Len(log) :
              log[k].wrote # <<>> =>
                  log[k].wrote[1] =
                      CSVRow([i \in 1..Len(fields) |->
                                 sanitize(FieldValue(log[k].rec, fields[i]))])

\* the storefront answered pkg as not found: a 404, or a page that parses and
\* gives no name
DirectNotFound(pkg, resp) ==
    /\ resp.kind = "http"
    /\ \/ resp.code = 404
       \/ fetchAndroidDirect(pkg, resp).err = Err(MsgAppNotFound)

\* C10: the Android resolver issues the search iff the direct fetch failed as
\* not found; a transport error or another HTTP failure causes no further
\* request. Per line at most one search and one retry are issued, the retry
\* only after a search that found the package ignoring case, and nothing after
\* a failed retry.
C10_SearchIffDirectNotFound ==
    (log # <<>> /\ log[Len(log)].returned /\ reqs # <<>> /\ reqs[1].op = "direct") =>
        LET pkg == log[Len(log)].line
            searches == {i \in 1..Len(reqs) : reqs[i].op = "search"}
            directs == {i \in 1..Len(reqs) : reqs[i].op = "direct"}
        IN  /\ searches # {} <=> DirectNotFound(pkg, reqs[1].resp)
            /\ Cardinality(searches) <= 1
            /\ Cardinality(directs) <= 2
            /\ Cardinality(directs) = 2 =>
                  /\ Len(reqs) = 3
                  /\ reqs[2].op = "search"
                  /\ searchAndroidPackage(pkg, reqs[2].resp).err.ok
                  /\ EqualFold(searchAndroidPackage(pkg, reqs[2].resp).pkg, pkg)

\* the lookup endpoint answered with an empty result set
LookupEmpty(resp) ==
    /\ resp.kind = "http"
    /\ resp.code = 200
    /\ resp.bodyOK
    /\ resp.resultCount = 0 \/ resp.results = <<>>

\* the lookup endpoint gave no record: a transport error, a status other than
\* 200, a body that does not decode, or an empty result set
LookupFailed(resp) ==
    \/ resp.kind = "transport"
    \/ resp.code # 200
    \/ ~resp.bodyOK
    \/ LookupEmpty(resp)

\* the lookups of a resolved iOS line are the first one without a country and,
\* given second, a second one with country jp and nothing else
LookupsAre(id, second) ==
    /\ reqs[1].url = LookupURLPrefix \o id
    /\ Len(reqs) = IF second THEN 2 ELSE 1
    /\ second => reqs[2].op = "lookup"
                    /\ reqs[2].url = LookupURLPrefix \o id \o CountryParam \o CountryJP

\* the last line read is an iOS ID whose resolution has returned
IOSLineReturned ==
    /\ log # <<>>
    /\ log[Len(log)].returned
    /\ reqs # <<>>
    /\ reqs[1].op = "lookup"

\* C11 as stated: the first lookup has no locale and the jp lookup is issued
\* exactly when the first lookup returned an empty result set; a transport
\* error, a non-200 status or a malformed body is not retried; at most two
\* lookups per ID, none after a first lookup that succeeds.
C11_SecondLookupIffEmptyResult ==
    IOSLineReturned => LookupsAre(log[Len(log)].line, LookupEmpty(reqs[1].resp))

\* C11 amended: the first lookup has no locale and the jp lookup is issued
\* exactly when the first lookup failed, whatever the failure (empty result
\* set, transport error, non-200 status, malformed body); at most two lookups
\* per ID, none after a first lookup that succeeds.
C11_SecondLookupIffFirstFailed ==
    /\ IOSLineReturned => LookupsAre(log[Len(log)].line, LookupFailed(reqs[1].resp))
    /\ pc = "lookupJP" => Len(reqs) = 1 /\ LookupFailed(reqs[1].resp)
    /\ pc = "lookup" => reqs = <<>>

\* C11 witness: the first lookup failed with a transport error, the jp lookup
\* was issued and found the app.
C11_Witness ==
    /\ IOSLineReturned
    /\ Len(reqs) = 2
    /\ reqs[1].resp.kind = "transport"
    /\ HasSuffix(reqs[2].url, CountryParam \o CountryJP)
    /\ log[Len(log)].err.ok
====
